---- MODULE Spec2Model ----
(***************************************************************************)
(* Model of String.prototype.currencyFormat and                            *)
(* String.prototype.currencyUnformat                                       *)
(* (src/scripts/String.prototype.currencyFormat.js).                       *)
(*                                                                         *)
(* A JavaScript string is modelled as a sequence of one-character strings  *)
(* (its UTF-16 code units), so that "ab" is <<"a", "b">> and '' is <<>>.   *)
(* A call is modelled as a state machine: Init draws the receiver and the  *)
(* arguments, and one action per prototype function applies it.            *)
(***************************************************************************)
EXTENDS Integers, Sequences, FiniteSets, TLC

VARIABLES pc, this, symbol, groupSeparator, decimalSeparator, regex,
          locals, formatted, unformatted

vars == <<pc, this, symbol, groupSeparator, decimalSeparator, regex,
          locals, formatted, unformatted>>

----------------------------------------------------------------------------
(* Bounds of the explored inputs.                                          *)

\* Every string over Alphabet of at most MaxLen characters is a receiver.
MaxLen == 3

\* Receivers with an integer part of 0..MaxDigits digits (the digits
\* 1234567890 repeated), alone and followed by each of Fractions.
MaxDigits == 11

Alphabet == {"1", "2", ".", ",", "-", "|"}

DigitChars == <<"0", "1", "2", "3", "4", "5", "6", "7", "8", "9">>

Digits == {DigitChars[k] : k \in 1..10}

----------------------------------------------------------------------------
(* JavaScript primitives used by the two functions.                        *)

\* The value of a variable that was declared (var) and never assigned, and
\* of a parameter the caller left out.
Undefined == [kind |-> "undefined"]

\* ToString(n) of a non-negative integer: its decimal digits. The keys of
\* an array enumerated by for..in are such strings.
RECURSIVE NumberToString(_)
NumberToString(n) ==
    IF n < 10 THEN <<DigitChars[n + 1]>>
    ELSE NumberToString(n \div 10) \o <<DigitChars[(n % 10) + 1]>>

DigitValue(c) == CHOOSE d \in 0..9 : DigitChars[d + 1] = c

\* ToNumber(s) of a string of decimal digits (leading zeros allowed), the
\* coercion applied to a string operand of % and of < against a number.
RECURSIVE StringToNumber(_)
StringToNumber(s) ==
    IF s = <<>> THEN 0
    ELSE 10 * StringToNumber(SubSeq(s, 1, Len(s) - 1)) + DigitValue(s[Len(s)])

\* search occurs in s at the zero-based position p.
OccursAt(s, search, p) ==
    /\ p >= 0
    /\ p + Len(search) <= Len(s)
    /\ SubSeq(s, p + 1, p + Len(search)) = search

\* String.prototype.lastIndexOf: scan from the right end, -1 when absent.
RECURSIVE LastIndexFrom(_, _, _)
LastIndexFrom(s, search, p) ==
    IF p < 0 THEN -1
    ELSE IF OccursAt(s, search, p) THEN p
    ELSE LastIndexFrom(s, search, p - 1)

\* String.prototype.indexOf: scan from the left end, -1 when absent.
RECURSIVE IndexFrom(_, _, _)
IndexFrom(s, search, p) ==
    IF p + Len(search) > Len(s) THEN -1
    ELSE IF OccursAt(s, search, p) THEN p
    ELSE IndexFrom(s, search, p + 1)

lastIndexOf(s, search) == LastIndexFrom(s, search, Len(s) - Len(search))

\* String.prototype.slice(begin) and slice(begin, end), 0 <= begin <= end.
sliceFrom(s, begin) == SubSeq(s, begin + 1, Len(s))

slice(s, begin, end) == SubSeq(s, begin + 1, end)

\* s.split('').reverse(): the characters of s, last first.
reverse(s) == [k \in 1..Len(s) |-> s[Len(s) + 1 - k]]

----------------------------------------------------------------------------
(* String.prototype.currencyFormat                                         *)

\* The keys for..in enumerates over an array of n elements, in order: the
\* strings "0", "1", ..., ToString(n - 1).
ArrayKeys(n) == [k \in 1..n |-> NumberToString(k - 1)]

\* digits[i] for a key i of the array.
ElementAt(digits, i) == digits[StringToNumber(i) + 1]

\* Variant of decimalPositionOf: this.indexOf(decimalSeparator).
FirstOccurrencePosition(str, decSep) == IndexFrom(str, decSep, 0)

\* var decimalPosition = this.lastIndexOf(decimalSeparator)
decimalPositionOf(str, decSep) == lastIndexOf(str, decSep)

\* Variant of decimalsOf: this.slice(decimalPosition + 1).
DecimalsWithoutMarker(str, decimalPosition) ==
    IF decimalPosition > -1 THEN sliceFrom(str, decimalPosition + 1) ELSE <<>>

\* decimals = decimalPosition > -1 ? this.slice(decimalPosition) : ''
decimalsOf(str, decimalPosition) ==
    IF decimalPosition > -1 THEN sliceFrom(str, decimalPosition) ELSE <<>>

\* digits = decimalPosition > -1
\*            ? this.slice(0, decimalPosition).split('').reverse()
\*            : this.split('').reverse()
digitsOf(str, decimalPosition) ==
    IF decimalPosition > -1 THEN reverse(slice(str, 0, decimalPosition))
    ELSE reverse(str)

\* Variant of SeparatorTest: (i + 1) % 3 === 0 alone.
SeparatorTestNoLastGuard(i, digitsLength) ==
    StringToNumber(i \o NumberToString(1)) % 3 = 0

\* Variant of SeparatorTest: (i + 2) % 3 === 0 && i < digitsLength - 1.
SeparatorTestPlusTwo(i, digitsLength) ==
    /\ StringToNumber(i \o NumberToString(2)) % 3 = 0
    /\ StringToNumber(i) < digitsLength - 1

\* (i + 1) % 3 === 0 && i < digitsLength - 1, for a for..in key i: i is a
\* string, so i + 1 is the string i followed by "1", which % converts to a
\* number, and < converts i to a number.
SeparatorTest(i, digitsLength) ==
    /\ StringToNumber(i \o NumberToString(1)) % 3 = 0
    /\ StringToNumber(i) < digitsLength - 1

\* Variant of LoopStep: units = units + digits[i] (the digit is added on
\* the right, so the reversal is never undone).
LoopStepAppending(st, digits, i, grpSep) ==
    LET placed == st.units \o <<ElementAt(digits, i)>>
    IN  IF SeparatorTest(i, Len(digits))
        THEN [units |-> grpSep \o placed,
              sepAt |-> st.sepAt \cup {StringToNumber(i)}]
        ELSE [units |-> placed, sepAt |-> st.sepAt]

\* Variant of LoopStep: the separator is added only when the next
\* character to the left is a digit (a sign is kept next to its number).
LoopStepDigitsOnly(st, digits, i, grpSep) ==
    LET placed == <<ElementAt(digits, i)>> \o st.units
        next == NumberToString(StringToNumber(i) + 1)
    IN  IF SeparatorTest(i, Len(digits)) /\ ElementAt(digits, next) \in Digits
        THEN [units |-> grpSep \o placed,
              sepAt |-> st.sepAt \cup {StringToNumber(i)}]
        ELSE [units |-> placed, sepAt |-> st.sepAt]

\* One iteration of the loop body for the key i:
\*   units = digits[i] + units;
\*   if ((i + 1) % 3 === 0 && i < digitsLength - 1) units = groupSeparator + units;
\* st.units is the local units; st.sepAt records the keys (as numbers) at
\* which the separator was added.
LoopStep(st, digits, i, grpSep) ==
    LET placed == <<ElementAt(digits, i)>> \o st.units
    IN  IF SeparatorTest(i, Len(digits))
        THEN [units |-> grpSep \o placed,
              sepAt |-> st.sepAt \cup {StringToNumber(i)}]
        ELSE [units |-> placed, sepAt |-> st.sepAt]

\* for (var i in digits) { ... }, from the k-th key on.
RECURSIVE LoopFrom(_, _, _, _)
LoopFrom(st, digits, k, grpSep) ==
    IF k > Len(digits) THEN st
    ELSE LoopFrom(LoopStep(st, digits, ArrayKeys(Len(digits))[k], grpSep),
                  digits, k + 1, grpSep)

FormatLoop(digits, grpSep) ==
    LoopFrom([units |-> <<>>, sepAt |-> {}], digits, 1, grpSep)

\* The locals of the branch groupSeparator !== '' when the loop is left.
GroupingLocals(str, grpSep, decSep) ==
    LET decimalPosition == decimalPositionOf(str, decSep)
        decimals == decimalsOf(str, decimalPosition)
        digits == digitsOf(str, decimalPosition)
        loop == FormatLoop(digits, grpSep)
    IN  [kind |-> "assigned",
         decimalPosition |-> decimalPosition,
         decimals |-> decimals,
         digits |-> digits,
         digitsLength |-> Len(digits),
         units |-> loop.units,
         sepAt |-> loop.sepAt]

\* output = symbol + units + decimals
Concatenate(sym, units, decimals) == sym \o units \o decimals

\* Variant of NoGrouping: output = this + symbol.
NoGroupingSymbolLast(str, sym) == str \o sym

\* output = symbol + this
NoGrouping(str, sym) == sym \o str

\* The locals and the returned output of one call.
currencyFormat(str, sym, grpSep, decSep) ==
    IF grpSep # <<>>
    THEN LET l == GroupingLocals(str, grpSep, decSep)
         IN  [locals |-> l, output |-> Concatenate(sym, l.units, l.decimals)]
    ELSE [locals |-> Undefined, output |-> NoGrouping(str, sym)]

----------------------------------------------------------------------------
(* String.prototype.currencyUnformat                                       *)

\* A RegExp of the form /[...]/, /[^...]/, /[...]+/ or /[^...]+/, with or
\* without the g flag: one character class, optionally repeated. chars is
\* the set of characters listed between the brackets.
RegExp(negated, chars, plus, global) ==
    [kind |-> "regexp", negated |-> negated, chars |-> chars,
     plus |-> plus, global |-> global]

\* Variant of DefaultPattern: /[^\d]+/g.
DefaultPatternDigitsOnly == RegExp(TRUE, Digits, TRUE, TRUE)

\* The default pattern /[^\d|^\.]+/g. Inside the brackets \d lists the
\* digits, and |, ^ (not in first place) and \. list themselves.
DefaultPattern == RegExp(TRUE, Digits \cup {"|", "^", "."}, TRUE, TRUE)

\* The character c matches the class of the pattern.
ClassMatches(pattern, c) ==
    IF pattern.negated THEN c \notin pattern.chars ELSE c \in pattern.chars

\* The zero-based index of the last character of the match that starts at
\* the (matching) position p: the longest run for a repeated class.
RECURSIVE MatchEnd(_, _, _)
MatchEnd(s, pattern, p) ==
    IF pattern.plus /\ p + 1 < Len(s) /\ ClassMatches(pattern, s[p + 2])
    THEN MatchEnd(s, pattern, p + 1)
    ELSE p

\* String.prototype.replace(pattern, ''): scan from position p; a match is
\* dropped when the pattern is global or nothing was replaced before it.
RECURSIVE ReplaceFrom(_, _, _, _)
ReplaceFrom(s, pattern, p, replaced) ==
    IF p >= Len(s) THEN <<>>
    ELSE IF ClassMatches(pattern, s[p + 1]) /\ (pattern.global \/ ~replaced)
    THEN ReplaceFrom(s, pattern, MatchEnd(s, pattern, p) + 1, TRUE)
    ELSE <<s[p + 1]>> \o ReplaceFrom(s, pattern, p + 1, replaced)

replace(s, pattern) == ReplaceFrom(s, pattern, 0, FALSE)

\* A RegExp object is truthy, undefined is falsy.
Truthy(v) == v.kind # "undefined"

\* var pattern = regex ? regex : /[^\d|^\.]+/g;
\* return this.replace(pattern, '');
currencyUnformat(str, rgx) ==
    LET pattern == IF Truthy(rgx) THEN rgx ELSE DefaultPattern
    IN  replace(str, pattern)

----------------------------------------------------------------------------
(* The calls explored.                                                     *)

AlphabetStrings == UNION {[1..n -> Alphabet] : n \in 0..MaxLen}

\* The first n characters of 1234567890 1234567890 ...
DigitRun(n) == [k \in 1..n |-> DigitChars[(k % 10) + 1]]

Fractions == {<<>>, <<".", "7", "8">>, <<",", "5">>, <<".", "5", ".", "2">>}

DigitRunStrings == {DigitRun(n) \o f : n \in 0..MaxDigits, f \in Fractions}

\* 'Total: $ 12,345,678.90 (annual)', the example of currencyUnformat.
TotalAnnual ==
    <<"T", "o", "t", "a", "l", ":", " ", "$", " ", "1", "2", ",", "3", "4",
      "5", ",", "6", "7", "8", ".", "9", "0", " ", "(", "a", "n", "n", "u",
      "a", "l", ")">>

ExampleStrings ==
    { <<"7">>,
      <<"-", "1", "2", "3">>,
      <<"-", "1", "2", "3", "4", ".", "5">>,
      <<"1", "^", "2">>,
      <<"1", " ", "2", "3", "4">>,
      TotalAnnual }

Receivers == AlphabetStrings \cup DigitRunStrings \cup ExampleStrings

Symbols == {<<>>, <<"$">>, <<"$", " ">>}

GroupSeparators == {<<>>, <<",">>, <<".">>, <<",", " ">>}

DecimalSeparators == {<<>>, <<".">>, <<",">>, <<",", "-">>}

\* Patterns a caller passes: /[^\d,]+/g, /[^\d.]+/, /[^\d.]/g, /[^\d.]/,
\* /,/g and /,/.
CallerPatterns ==
    { RegExp(TRUE, Digits \cup {","}, TRUE, TRUE),
      RegExp(TRUE, Digits \cup {"."}, TRUE, FALSE),
      RegExp(TRUE, Digits \cup {"."}, FALSE, TRUE),
      RegExp(TRUE, Digits \cup {"."}, FALSE, FALSE),
      RegExp(FALSE, {","}, FALSE, TRUE),
      RegExp(FALSE, {","}, FALSE, FALSE) }

----------------------------------------------------------------------------
(* The state machine: a call of currencyFormat, optionally followed by     *)
(* currencyUnformat() on its result, or a call of currencyUnformat.        *)

Init ==
    /\ this \in Receivers
    /\ \/ /\ pc = "callFormat"
          /\ symbol \in Symbols
          /\ groupSeparator \in GroupSeparators
          /\ decimalSeparator \in DecimalSeparators
          /\ regex = Undefined
       \/ /\ pc = "callUnformat"
          /\ symbol = <<>>
          /\ groupSeparator = <<>>
          /\ decimalSeparator = <<>>
          /\ regex \in CallerPatterns \cup {Undefined}
    /\ locals = Undefined
    /\ formatted = <<>>
    /\ unformatted = <<>>

\* this.currencyFormat(symbol, groupSeparator, decimalSeparator)
CurrencyFormat ==
    /\ pc = "callFormat"
    /\ LET r == currencyFormat(this, symbol, groupSeparator, decimalSeparator)
       IN  /\ locals' = r.locals
           /\ formatted' = r.output
    /\ pc' = "formatted"
    /\ UNCHANGED <<this, symbol, groupSeparator, decimalSeparator, regex,
                   unformatted>>

\* this.currencyUnformat(regex), or the same call on the formatted string.
CurrencyUnformat ==
    /\ pc \in {"callUnformat", "formatted"}
    /\ unformatted' =
           currencyUnformat(IF pc = "formatted" THEN formatted ELSE this, regex)
    /\ pc' = IF pc = "formatted" THEN "roundTrip" ELSE "unformatted"
    /\ UNCHANGED <<this, symbol, groupSeparator, decimalSeparator, regex,
                   locals, formatted>>

Next == CurrencyFormat \/ CurrencyUnformat

Spec == Init /\ [][Next]_vars

TypeOK ==
    /\ pc \in {"callFormat", "callUnformat", "formatted", "unformatted",
               "roundTrip"}
    /\ this \in Receivers
    /\ symbol \in Symbols
    /\ groupSeparator \in GroupSeparators
    /\ decimalSeparator \in DecimalSeparators

----------------------------------------------------------------------------
(* Reference definitions used to state the properties.                     *)

\* A call of currencyFormat has returned.
Formatted == pc \in {"formatted", "roundTrip"}

\* A call of currencyFormat has returned through the grouping branch.
Grouped == Formatted /\ groupSeparator # <<>>

\* The zero-based positions at which search occurs in s.
Occurrences(s, search) == {p \in 0..Len(s) : OccursAt(s, search, p)}

LastOccurrence(s, search) ==
    CHOOSE p \in Occurrences(s, search) :
        \A q \in Occurrences(s, search) : q <= p

\* The input before the last decimal separator, or the whole input.
IntegerPart(s, decSep) ==
    IF Occurrences(s, decSep) = {} THEN s
    ELSE SubSeq(s, 1, LastOccurrence(s, decSep))

\* The input from the last decimal separator on, or the empty string.
FractionalPart(s, decSep) ==
    IF Occurrences(s, decSep) = {} THEN <<>>
    ELSE SubSeq(s, LastOccurrence(s, decSep) + 1, Len(s))

\* The characters of int from the j-th on, left to right, with grpSep before
\* each character other than the first whose distance from the right end
\* (itself included) is a multiple of 3.
RECURSIVE GroupedFrom(_, _, _)
GroupedFrom(int, grpSep, j) ==
    IF j > Len(int) THEN <<>>
    ELSE (IF j > 1 /\ (Len(int) - j + 1) % 3 = 0 THEN grpSep ELSE <<>>)
         \o <<int[j]>> \o GroupedFrom(int, grpSep, j + 1)

GroupedInteger(int, grpSep) == GroupedFrom(int, grpSep, 1)

\* floor((len - 1) / 3) for len >= 1, and 0 for the empty integer part.
SeparatorCount(len) == IF len = 0 THEN 0 ELSE (len - 1) \div 3

\* The last n characters of s.
Suffix(s, n) == SubSeq(s, Len(s) - n + 1, Len(s))

\* s without the characters that satisfy no Keep: a filter.
OnlyDigitsAndPeriods(s) ==
    LET Keep(c) == c \in Digits \cup {"."} IN SelectSeq(s, Keep)

WithoutMatches(s, pattern) ==
    LET Keep(c) == ~ClassMatches(pattern, c) IN SelectSeq(s, Keep)

----------------------------------------------------------------------------
(* Properties.                                                             *)

\* C1: with a non-empty groupSeparator the output is symbol + grouped +
\* fractional, where grouped is the integer part in its original order with
\* floor((len-1)/3) separators, one before each character (other than the
\* first) whose distance from the right end is a multiple of 3;
\* "123456.78" gives "$ 123,456.78" and "1234567" gives "$1,234,567".
C1_GroupingCorrect ==
    Grouped =>
        LET int == IntegerPart(this, decimalSeparator)
            frac == FractionalPart(this, decimalSeparator)
        IN  /\ formatted = symbol \o GroupedInteger(int, groupSeparator) \o frac
            /\ Cardinality(locals.sepAt) = SeparatorCount(Len(int))
            /\ Len(formatted) = Len(symbol) + Len(int) + Len(frac)
                   + SeparatorCount(Len(int)) * Len(groupSeparator)
            /\ ( /\ this = DigitRun(6) \o <<".", "7", "8">>
                 /\ symbol = <<"$", " ">>
                 /\ groupSeparator = <<",">>
                 /\ decimalSeparator = <<".">> )
               => formatted = <<"$", " ", "1", "2", "3", ",", "4", "5", "6",
                                ".", "7", "8">>
            /\ ( /\ this = DigitRun(7)
                 /\ symbol = <<"$">>
                 /\ groupSeparator = <<",">>
                 /\ decimalSeparator = <<".">> )
               => formatted = <<"$", "1", ",", "2", "3", "4", ",", "5", "6",
                                "7">>

C1_Witness ==
    /\ pc = "formatted"
    /\ this = DigitRun(7)
    /\ symbol = <<"$">>
    /\ groupSeparator = <<",">>
    /\ decimalSeparator = <<".">>
    /\ locals.sepAt = {2, 5}
    /\ formatted = <<"$", "1", ",", "2", "3", "4", ",", "5", "6", "7">>

\* C2: no separator is placed before the leftmost character of the integer
\* part nor after its rightmost one; an integer part whose length is a
\* multiple of 3 follows the symbol directly, and an empty integer part
\* receives no separator.
C2_NoLeadingOrTrailingSeparator ==
    Grouped =>
        LET int == IntegerPart(this, decimalSeparator)
            frac == FractionalPart(this, decimalSeparator)
            len == Len(int)
        IN  /\ (len - 1) \notin locals.sepAt
            /\ \A i \in locals.sepAt : 0 < i + 1 /\ i + 1 < len
            /\ len >= 1 =>
                 /\ formatted[Len(symbol) + 1] = int[1]
                 /\ formatted[Len(formatted) - Len(frac)] = int[len]
                 /\ Suffix(formatted, Len(frac)) = frac
            /\ (len >= 3 /\ len % 3 = 0) =>
                 /\ SubSeq(formatted, Len(symbol) + 1, Len(symbol) + 3)
                        = SubSeq(int, 1, 3)
                 /\ Len(formatted) = Len(symbol) + len + Len(frac)
                        + ((len \div 3) - 1) * Len(groupSeparator)
            /\ len = 0 =>
                 /\ locals.sepAt = {}
                 /\ formatted = symbol \o frac

C2_Witness ==
    /\ pc = "formatted"
    /\ this = DigitRun(6)
    /\ symbol = <<"$">>
    /\ groupSeparator = <<",">>
    /\ locals.digitsLength = 6
    /\ locals.sepAt = {2}
    /\ formatted = <<"$", "1", "2", "3", ",", "4", "5", "6">>

\* C3: when the input contains decimalSeparator, the input from its last
\* occurrence to the end is a suffix of the output, character for
\* character, whatever the symbol and the groupSeparator.
C3_FractionalPassthrough ==
    (Formatted /\ Occurrences(this, decimalSeparator) # {}) =>
        LET p == LastOccurrence(this, decimalSeparator)
        IN  /\ Len(formatted) >= Len(this) - p
            /\ Suffix(formatted, Len(this) - p) = SubSeq(this, p + 1, Len(this))

C3_Witness ==
    /\ pc = "formatted"
    /\ this = DigitRun(6) \o <<".", "7", "8">>
    /\ symbol = <<"$", " ">>
    /\ groupSeparator = <<",">>
    /\ decimalSeparator = <<".">>
    /\ locals.decimals = <<".", "7", "8">>
    /\ formatted = <<"$", " ", "1", "2", "3", ",", "4", "5", "6", ".", "7",
                     "8">>

\* C4: with the empty groupSeparator the output is exactly symbol followed
\* by the unchanged input, for every decimalSeparator.
C4_EmptyGroupSeparatorBypass ==
    (Formatted /\ groupSeparator = <<>>) => formatted = symbol \o this

C4_Witness ==
    /\ pc = "formatted"
    /\ groupSeparator = <<>>
    /\ decimalSeparator = <<",">>
    /\ symbol = <<"$", " ">>
    /\ this = DigitRun(4) \o <<",", "5">>
    /\ formatted = <<"$", " ", "1", "2", "3", "4", ",", "5">>

\* C5: currencyUnformat() without a pattern returns the input with every
\* character outside [0-9.] removed and the digits and periods kept in
\* order.
C5_DefaultStripsAllButDigitsAndPeriods ==
    (pc = "unformatted" /\ regex.kind = "undefined") =>
        unformatted = OnlyDigitsAndPeriods(this)

\* C6: for a string s of digits and periods, currencyUnformat() of
\* s.currencyFormat("$ ", ",", ".") is s.
C6_RoundTrip ==
    ( /\ pc = "roundTrip"
      /\ symbol = <<"$", " ">>
      /\ groupSeparator = <<",">>
      /\ decimalSeparator = <<".">>
      /\ regex.kind = "undefined"
      /\ \A k \in 1..Len(this) : this[k] \in Digits \cup {"."} )
    => unformatted = this

C6_Witness ==
    /\ pc = "roundTrip"
    /\ this = DigitRun(7) \o <<".", "7", "8">>
    /\ symbol = <<"$", " ">>
    /\ groupSeparator = <<",">>
    /\ decimalSeparator = <<".">>
    /\ regex.kind = "undefined"
    /\ formatted = <<"$", " ", "1", ",", "2", "3", "4", ",", "5", "6", "7",
                     ".", "7", "8">>
    /\ unformatted = this

\* C7: with a caller-supplied pattern every match, not only the first, is
\* replaced by the empty string, so the output holds only the characters
\* the pattern does not match.
C7_CallerPatternIsGlobal ==
    (pc = "unformatted" /\ regex.kind = "regexp") =>
        unformatted = WithoutMatches(this, regex)

\* C8: the split is at the LAST occurrence of decimalSeparator: the
\* fractional part starts there and every earlier occurrence belongs to the
\* integer part, where it is counted and grouped like any other character;
\* without an occurrence the whole input is the integer part.
C8_SplitAtLastOccurrence ==
    Grouped =>
        LET occ == Occurrences(this, decimalSeparator)
        IN  IF occ = {}
            THEN /\ locals.decimalPosition = -1
                 /\ locals.decimals = <<>>
                 /\ locals.digits = reverse(this)
                 /\ locals.digitsLength = Len(this)
            ELSE /\ locals.decimalPosition \in occ
                 /\ \A q \in occ : q <= locals.decimalPosition
                 /\ locals.decimals = SubSeq(this, locals.decimalPosition + 1,
                                             Len(this))
                 /\ locals.digits =
                        reverse(SubSeq(this, 1, locals.decimalPosition))
                 /\ locals.digitsLength = locals.decimalPosition
                 /\ Cardinality(locals.sepAt) =
                        SeparatorCount(locals.decimalPosition)
                 /\ formatted = symbol \o locals.units \o locals.decimals

C8_Witness ==
    /\ pc = "formatted"
    /\ this = DigitRun(3) \o <<".", "5", ".", "2">>
    /\ symbol = <<"$">>
    /\ groupSeparator = <<",">>
    /\ decimalSeparator = <<".">>
    /\ Cardinality(Occurrences(this, decimalSeparator)) = 2
    /\ locals.decimalPosition = 5
    /\ formatted = <<"$", "1", "2", ",", "3", ".", "5", ".", "2">>

\* The loop of the design note: an integer counter i over the reversed
\* integer part, with the test (i + 1) % 3 = 0 and i < digitsLength - 1.
RECURSIVE IntegerCounterLoop(_, _, _, _)
IntegerCounterLoop(units, digits, i, grpSep) ==
    IF i >= Len(digits) THEN units
    ELSE LET placed == <<digits[i + 1]>> \o units
         IN  IntegerCounterLoop(
                 IF (i + 1) % 3 = 0 /\ i < Len(digits) - 1
                 THEN grpSep \o placed ELSE placed,
                 digits, i + 1, grpSep)

\* C9: for a key i, i + 1 is the number 10*i + 1, and the source's test on
\* the string key holds exactly when the integer-counter test
\* (i + 1) % 3 = 0 and i < digitsLength - 1 holds, so both loops place the
\* separators at the same positions.
C9_StringKeyTestEquivalent ==
    Grouped =>
        LET n == locals.digitsLength
        IN  /\ \A i \in 0..(n - 1) :
                 LET key == ArrayKeys(n)[i + 1]
                 IN  /\ StringToNumber(key \o NumberToString(1)) = 10 * i + 1
                     /\ SeparatorTest(key, n)
                            <=> ((10 * i + 1) % 3 = 0 /\ i < n - 1)
                     /\ SeparatorTest(key, n)
                            <=> ((i + 1) % 3 = 0 /\ i < n - 1)
            /\ locals.sepAt =
                   {i \in 0..(n - 1) : (i + 1) % 3 = 0 /\ i < n - 1}
            /\ locals.units =
                   IntegerCounterLoop(<<>>, locals.digits, 0, groupSeparator)

C9_Witness ==
    /\ pc = "formatted"
    /\ this = DigitRun(11)
    /\ symbol = <<"$">>
    /\ groupSeparator = <<",">>
    /\ decimalSeparator = <<".">>
    /\ ArrayKeys(locals.digitsLength)[11] = <<"1", "0">>
    /\ locals.sepAt = {2, 5, 8}
    /\ formatted = <<"$", "1", "2", ",", "3", "4", "5", ",", "6", "7", "8",
                     ",", "9", "0", "1">>

\* Characters an integer part may hold in place of digits.
ProbeChars == {"0", "-", " ", "a"}

\* C10: the positions of the separators depend only on the length of the
\* integer part: any string of the same length, whatever its characters,
\* gets its separators at the same positions, and the integer part "-123"
\* becomes "-,123".
C10_GroupingIsPositional ==
    Grouped =>
        /\ \A c \in ProbeChars :
             LET other == [k \in 1..locals.digitsLength |-> c]
                 mixed == [k \in 1..locals.digitsLength |->
                              IF k % 2 = 0 THEN c ELSE locals.digits[k]]
             IN  /\ FormatLoop(other, groupSeparator).sepAt = locals.sepAt
                 /\ FormatLoop(mixed, groupSeparator).sepAt = locals.sepAt
        /\ \A k \in 1..locals.digitsLength :
             locals.units[Len(locals.units) + 1 - k
                 - Len(groupSeparator) * Cardinality({i \in locals.sepAt : i < k - 1})]
               = locals.digits[k]
        /\ ( /\ IntegerPart(this, decimalSeparator) = <<"-", "1", "2", "3">>
             /\ groupSeparator = <<",">> )
           => locals.units = <<"-", ",", "1", "2", "3">>

C10_Witness ==
    /\ pc = "formatted"
    /\ this = <<"-", "1", "2", "3">>
    /\ symbol = <<"$">>
    /\ groupSeparator = <<",">>
    /\ decimalSeparator = <<".">>
    /\ locals.sepAt = {2}
    /\ formatted = <<"$", "-", ",", "1", "2", "3">>

====
